---- MODULE Spec2Model ----
(***************************************************************************)
(* Model of the arXiv curator: the worker (src/index.js: fetchWithRetry    *)
(* and the two tool handlers) and the orchestrator (src/profile.txt, lines *)
(* 18-385: SimpleLlamaArxivCurator and its request channel).               *)
(*                                                                         *)
(* Time is kept as the remaining milliseconds of every running timer       *)
(* (setTimeout, an HTTP request in flight); Tick lets the time to the      *)
(* nearest expiry pass for all of them at once.                            *)
(*                                                                         *)
(* SpecFetch, SpecTitles and SpecAbstracts run one part of the worker on   *)
(* its own, SpecChannel runs the request channel against a worker that may *)
(* write anything, and SpecPipeline runs main with the worker it spawns.   *)
(* In SpecPipeline a continuation of the orchestrator runs before its next *)
(* event (microtasks before macrotasks), and time passes only while both   *)
(* processes wait.                                                         *)
(***************************************************************************)
EXTENDS Integers, Sequences, FiniteSets, TLC

VARIABLES
    inbox,        \* requests written to the worker's stdin, not yet handled
    fetch,        \* the running activation of fetchWithRetry
    wtimer,       \* remaining ms of the worker's current await, or Off
    wpc,          \* where the worker's tool handler stands
    wreq,         \* the request the handler is serving
    idx,          \* loop position of the running handler (category or paper)
    allPapers,    \* get_all_titles: allPapers
    paperUrls,    \* get_abstracts_for_papers: paperUrls after the slice
    paperDetails, \* get_abstracts_for_papers: paperDetails
    served,       \* history: what each fetchWithRetry call of the handler ended with
    wlog,         \* history: the handler's calls of fetchWithRetry and delay, in order
    reply,        \* what the handler returned
    stdout,       \* bytes the worker wrote to its stdout, not yet read
    wrote,        \* history: how many lines an arbitrary worker has written
    messageId,        \* this.messageId
    pendingRequests,  \* this.pendingRequests (its keys)
    timers,           \* remaining ms of the setTimeout of each request
    settles,          \* history: the resolve and reject calls of each request's promise
    unmatched,        \* history: ids of response lines that met no pending request
    buffer,           \* this.buffer
    env,              \* what the network and the calendar are like during the run
    serverProcess,    \* this.serverProcess
    opc,              \* where main and curatePapers stand
    otimer,           \* remaining ms of the orchestrator's own setTimeout, or Off
    options,          \* the options curatePapers is called with
    run,              \* the locals of curatePapers
    result,           \* what main's try block ended with
    scored,           \* history: the papers analyzeWithLlama was called with, in order
    orphans           \* history: the requests pending when the worker exited

handlerVars == <<wpc, wreq, idx, allPapers, paperUrls, paperDetails, served, wlog, reply>>
workerVars == <<fetch, wtimer, handlerVars>>
channelVars == <<messageId, pendingRequests, timers, settles, unmatched, buffer>>
curatorVars == <<env, serverProcess, opc, otimer, options, run, result, scored, orphans>>
vars == <<inbox, fetch, wtimer, wpc, wreq, idx, allPapers, paperUrls, paperDetails,
          served, wlog, reply, stdout, wrote, messageId, pendingRequests, timers,
          settles, unmatched, buffer, env, serverProcess, opc, otimer, options, run,
          result, scored, orphans>>

----------------------------------------------------------------------------
(* Program constants *)

HttpTimeout == 20000
DefaultMaxRetries == 3
DefaultBaseDelay == 1000
PaperMaxRetries == 2
PaperBaseDelay == 500
CategoryPacing == 2000
PaperPacing == 1000
BatchLimit == 20
RequestTimeout == 60000
coreCategories == <<"cs.LG", "cs.AI", "cs.CL", "stat.ML">>

(* Bounds of the model *)

MaxRetriesArg == 4      \* fetchWithRetry is tried with maxRetries in 0..MaxRetriesArg
MaxEntries == 2         \* entries of one feed response
MaxRequests == 2        \* requests a caller of the channel sends
MaxLines == 2           \* lines an arbitrary worker writes
MaxChunk == 3           \* bytes of one chunk read from the worker's stdout
MaxUrls == 3            \* identifiers of a request beyond its padding
MaxScored == 4          \* papers with an abstract that reach the scoring loop
MaxTitles == 3          \* papers of a titles answer given to the filters
MaxRead == 5            \* bytes of one chunk when the reader is taken on its own

Off == 0 - 1            \* no timer running

----------------------------------------------------------------------------
(* Helpers *)

RECURSIVE Pow2(_)
Pow2(n) == IF n <= 0 THEN 1 ELSE 2 * Pow2(n - 1)

Min(S) == CHOOSE x \in S : \A y \in S : x <= y

Range(s) == {s[k] : k \in 1..Len(s)}

----------------------------------------------------------------------------
(* The feed: what axios.get may answer *)

Urls == {"u1", "u2", "u3"}

\* a paper whose lookup always answers at once; requests are padded with it
StableUrl == "u0"

\* url.replace('http://arxiv.org/abs/', '').replace('https://arxiv.org/abs/', '')
\*    .split('/').pop()
ArxivId(u) == CASE u = "u0" -> "id0" [] u = "u1" -> "id1" [] u = "u2" -> "id2" [] OTHER -> "id3"

\* the id element of the entry the feed holds for an arXiv id
EntryUrl(a) == CASE a = "id0" -> "u0" [] a = "id1" -> "u1" [] a = "id2" -> "u2" [] OTHER -> "u3"

\* published, as the feed gives it for each paper (a parseable timestamp)
PublishedOf(u) == CASE u = "u1" -> 2 [] u = "u2" -> 3 [] OTHER -> 2

\* one <entry> of the feed; complete = it has the title, id, published (and,
\* for a lookup, summary) elements the handlers index
Entry(u, complete) == [id |-> u, published |-> PublishedOf(u), complete |-> complete]

EntrySeqs(n) ==
    {s \in UNION {[1..k -> Urls] : k \in 0..n} :
        \A a, b \in 1..Len(s) : a # b => s[a] # s[b]}

\* a response body: XML that parseString rejects, or a feed with entries
Malformed == [wellFormed |-> FALSE, entries |-> <<>>]
Feed(es) == [wellFormed |-> TRUE, entries |-> es]

Bodies ==
    {Malformed}
    \cup {Feed([k \in 1..Len(s) |-> Entry(s[k], TRUE)]) : s \in EntrySeqs(MaxEntries)}
    \cup {Feed(<<Entry("u1", FALSE)>>)}

\* what a lookup by id_list may answer: bad XML, no entry, the entry, or an
\* entry without all its elements
LookupBodies(a) ==
    IF a = ArxivId(StableUrl)
    THEN {Feed(<<Entry(StableUrl, TRUE)>>)}
    ELSE {Malformed, Feed(<<>>), Feed(<<Entry(EntryUrl(a), TRUE)>>),
          Feed(<<Entry(EntryUrl(a), FALSE)>>)}

\* what a category query may list during a run, by the name of the feed
Listing(name) ==
    CASE name = "empty" -> {Feed(<<>>)}
      [] name = "plain" -> {Feed(<<Entry("u2", TRUE)>>)}
      [] name = "mixed" -> {Feed(<<Entry("u1", TRUE), Entry("u2", TRUE)>>),
                            Feed(<<Entry("u3", TRUE)>>)}
      [] OTHER -> Bodies

\* the bodies the feed may answer a query with: target is a category or an id
BodiesFor(target) ==
    IF target \in {ArxivId(u) : u \in Urls \cup {StableUrl}}
    THEN LookupBodies(target) ELSE Listing(env.listing)

----------------------------------------------------------------------------
(* fetchWithRetry, src/index.js 21-45 *)

Undefined == [kind |-> "undefined", attempt |-> 0, data |-> Malformed]
Response(att, body) == [kind |-> "response", attempt |-> att, data |-> body]
Failure(att) == [kind |-> "error", attempt |-> att, data |-> Malformed]

\* what one axios.get can do: answer or fail at once, or run into its timeout
Answered == [latency |-> 0, ok |-> TRUE]
Refused == [latency |-> 0, ok |-> FALSE]
Stalled == [latency |-> HttpTimeout, ok |-> FALSE]
Requests == {Answered, Refused, Stalled}

\* what a request may do during a run, by the name of the network's condition
Weather(name) ==
    CASE name = "clear" -> {Answered}
      [] name = "refusing" -> {Answered, Refused}
      [] name = "stalling" -> {Answered, Stalled}
      [] name = "down" -> {Stalled}
      [] OTHER -> Requests

RequestsFor(target) ==
    IF target = ArxivId(StableUrl) THEN {Answered} ELSE Weather(env.weather)

NewFetch(target, maxRetries, baseDelay) ==
    [status |-> "idle", url |-> target, maxRetries |-> maxRetries, baseDelay |-> baseDelay,
     attempt |-> 1, tries |-> 0, waits |-> <<>>, ok |-> FALSE, outcomes |-> <<>>,
     result |-> Undefined]

LinearDelay(baseDelay, attempt) == baseDelay * attempt

\* const delayMs = baseDelay * Math.pow(2, attempt - 1)
BackoffDelay(baseDelay, attempt) == baseDelay * Pow2(attempt - 1)

\* the loop test and the body up to its await of axios.get: <<fetch, wtimer>>
LoopHead(f) ==
    IF f.attempt <= f.maxRetries
    THEN {<<[f EXCEPT !.status = "requesting", !.tries = @ + 1, !.ok = r.ok], r.latency>> :
            r \in RequestsFor(f.url)}
    ELSE {<<[f EXCEPT !.status = "returned", !.result = Undefined], Off>>}

\* a call fetchWithRetry(url, maxRetries, baseDelay)
Enter(target, maxRetries, baseDelay) == LoopHead(NewFetch(target, maxRetries, baseDelay))

\* the catch block: throw on the last attempt, otherwise wait
Catch(f) ==
    IF f.attempt = f.maxRetries
    THEN <<[f EXCEPT !.status = "thrown", !.result = Failure(f.attempt),
                     !.outcomes = Append(@, FALSE)], Off>>
    ELSE <<[f EXCEPT !.status = "waiting", !.outcomes = Append(@, FALSE),
                     !.waits = Append(@, BackoffDelay(f.baseDelay, f.attempt))],
           BackoffDelay(f.baseDelay, f.attempt)>>

\* axios.get settles
FetchSettle ==
    /\ fetch.status = "requesting"
    /\ wtimer = 0
    /\ IF fetch.ok
       THEN \E body \in BodiesFor(fetch.url) :
               /\ fetch' = [fetch EXCEPT !.status = "returned",
                                         !.outcomes = Append(@, TRUE),
                                         !.result = Response(fetch.attempt, body)]
               /\ wtimer' = Off
       ELSE /\ fetch' = Catch(fetch)[1]
            /\ wtimer' = Catch(fetch)[2]
    /\ UNCHANGED <<inbox, handlerVars, stdout, wrote, channelVars, curatorVars>>

\* the backoff delay is over: attempt++ and the next turn of the loop
FetchRetry ==
    /\ fetch.status = "waiting"
    /\ wtimer = 0
    /\ \E s \in LoopHead([fetch EXCEPT !.attempt = @ + 1]) :
          /\ fetch' = s[1]
          /\ wtimer' = s[2]
    /\ UNCHANGED <<inbox, handlerVars, stdout, wrote, channelVars, curatorVars>>

----------------------------------------------------------------------------
(* The tool handler, src/index.js 83-251 *)

NoRequest == [id |-> 0, method |-> "", name |-> "", urls |-> <<>>]
ToolCall(id, name, urls) == [id |-> id, method |-> "tools/call", name |-> name, urls |-> urls]

NoReply == [kind |-> "none", total_papers |-> 0, papers |-> <<>>, requested |-> 0, fetched |-> 0]

HandlerIdle ==
    /\ wpc = "idle"
    /\ wreq = NoRequest
    /\ idx = 0
    /\ allPapers = <<>>
    /\ paperUrls = <<>>
    /\ paperDetails = <<>>
    /\ served = <<>>
    /\ wlog = <<>>
    /\ reply = NoReply

\* The server writes one JSON object per line. A line is modelled by the bytes
\* a chunk boundary can fall between: the opening of the object up to its id,
\* the rest of the object with its result or error member, and the newline.
Byte(c) == [c |-> c, n |-> 0, s |-> "", v |-> NoReply]
Newline == Byte("nl")
Space == Byte(" ")
Junk == Byte("x")
IdPart(id) == [c |-> "{id", n |-> id, s |-> "", v |-> NoReply]
ResultPart(v) == [c |-> "result}", n |-> 0, s |-> "", v |-> v]
ErrorPart(message) == [c |-> "error}", n |-> 0, s |-> message, v |-> NoReply]

ResultLine(id, v) == <<IdPart(id), ResultPart(v), Newline>>
ErrorLine(id, message) == <<IdPart(id), ErrorPart(message), Newline>>

\* the activation of fetchWithRetry is gone once its caller has its result
NoFetch == NewFetch("", 0, 0)

FetchEv(what) == [op |-> "fetch", what |-> what, ms |-> 0]
DelayEv(ms) == [op |-> "delay", what |-> "", ms |-> ms]

\* what a fetchWithRetry call and the parse of its response gave the handler
Outcome(ok, entries) == [ok |-> ok, ids |-> [k \in 1..Len(entries) |-> entries[k].id]]

\* parseString resolves and every entry has the elements the mapping indexes
Parses(r) ==
    /\ r.kind = "response"
    /\ r.data.wellFormed
    /\ \A k \in 1..Len(r.data.entries) : r.data.entries[k].complete

----------------------------------------------------------------------------
(* get_all_titles, src/index.js 85-170 *)

\* papers.map(paper => ({title, authors, url, published, category}))
CategoryPapers(entries, category) ==
    [k \in 1..Len(entries) |->
        [url |-> entries[k].id, published |-> entries[k].published, category |-> category]]

\* the loop over allPapers with seenUrls
RECURSIVE UniquePapers(_, _)
UniquePapers(papers, seenUrls) ==
    IF papers = <<>> THEN <<>>
    ELSE IF Head(papers).url \in seenUrls
         THEN UniquePapers(Tail(papers), seenUrls)
         ELSE <<Head(papers)>> \o UniquePapers(Tail(papers), seenUrls \cup {Head(papers).url})

AscendingFn(a, b) == a.published - b.published

\* (a, b) => new Date(b.published) - new Date(a.published)
CompareFn(a, b) == b.published - a.published

\* Array.prototype.sort: stable, a stays before b unless CompareFn(a, b) > 0
RECURSIVE InsertSorted(_, _)
InsertSorted(sorted, p) ==
    IF sorted = <<>> THEN <<p>>
    ELSE IF CompareFn(sorted[Len(sorted)], p) > 0
         THEN CHOOSE out \in {Append(InsertSorted(front, p), sorted[Len(sorted)]) :
                                 front \in {SubSeq(sorted, 1, Len(sorted) - 1)}} : TRUE
         ELSE Append(sorted, p)

RECURSIVE SortPapers(_)
SortPapers(papers) ==
    IF papers = <<>> THEN <<>>
    ELSE CHOOSE out \in {InsertSorted(sorted, papers[Len(papers)]) :
                            sorted \in {SortPapers(SubSeq(papers, 1, Len(papers) - 1))}} : TRUE

\* the value get_all_titles returns
TitlesResult(papers) ==
    LET sortedPapers == SortPapers(UniquePapers(papers, {})) IN
    [kind |-> "titles", total_papers |-> Len(sortedPapers), papers |-> sortedPapers,
     requested |-> 0, fetched |-> 0]

StopAtFailure(k) == Len(coreCategories) + 1

\* the catch block is empty: the loop goes on with the category after k
AfterCatch(k) == k + 1

\* the next turn of the loop over coreCategories, or the code after the loop
NextCategory(k, papers, outcomes, log) ==
    /\ idx' = k
    /\ allPapers' = papers
    /\ served' = outcomes
    /\ IF k <= Len(coreCategories)
       THEN /\ \E s \in Enter(coreCategories[k], DefaultMaxRetries, DefaultBaseDelay) :
                  fetch' = s[1] /\ wtimer' = s[2]
            /\ wlog' = Append(log, FetchEv(coreCategories[k]))
            /\ wpc' = "titles_fetch"
            /\ UNCHANGED <<wreq, reply, stdout>>
       ELSE /\ fetch' = NoFetch
            /\ wtimer' = Off
            /\ wlog' = log
            /\ wpc' = "idle"
            /\ wreq' = wreq
            /\ \E answer \in {TitlesResult(papers)} :
                  /\ reply' = answer
                  /\ stdout' = stdout \o ResultLine(wreq.id, answer)

\* a tools/call request for get_all_titles arrives
TitlesCall ==
    /\ wpc = "idle"
    /\ inbox # <<>>
    /\ Head(inbox).method = "tools/call"
    /\ Head(inbox).name = "get_all_titles"
    /\ inbox' = Tail(inbox)
    /\ wreq' = Head(inbox)
    /\ reply' = NoReply
    /\ idx' = 1
    /\ allPapers' = <<>>
    /\ served' = <<>>
    /\ \E s \in Enter(coreCategories[1], DefaultMaxRetries, DefaultBaseDelay) :
          fetch' = s[1] /\ wtimer' = s[2]
    /\ wlog' = <<FetchEv(coreCategories[1])>>
    /\ wpc' = "titles_fetch"
    /\ UNCHANGED <<paperUrls, paperDetails, stdout, wrote, channelVars, curatorVars>>

\* fetchWithRetry(url) has ended: parse, map and push, or the catch block
TitlesFetched ==
    /\ wpc = "titles_fetch"
    /\ fetch.status \in {"returned", "thrown"}
    /\ IF Parses(fetch.result)
       THEN LET entries == fetch.result.data.entries
                papers == allPapers \o CategoryPapers(entries, coreCategories[idx])
                outcomes == Append(served, Outcome(TRUE, entries))
            IN IF coreCategories[idx] # coreCategories[Len(coreCategories)]
               THEN /\ allPapers' = papers
                    /\ served' = outcomes
                    /\ wlog' = Append(wlog, DelayEv(CategoryPacing))
                    /\ wtimer' = CategoryPacing
                    /\ fetch' = NoFetch
                    /\ wpc' = "titles_pace"
                    /\ UNCHANGED <<idx, wreq, reply, stdout>>
               ELSE NextCategory(idx + 1, papers, outcomes, wlog)
       ELSE NextCategory(AfterCatch(idx), allPapers,
                         Append(served, Outcome(FALSE, <<>>)), wlog)
    /\ UNCHANGED <<inbox, paperUrls, paperDetails, wrote, channelVars, curatorVars>>

\* the 2 s between categories are over
TitlesPaced ==
    /\ wpc = "titles_pace"
    /\ wtimer = 0
    /\ NextCategory(idx + 1, allPapers, served, wlog)
    /\ UNCHANGED <<inbox, paperUrls, paperDetails, wrote, channelVars, curatorVars>>

----------------------------------------------------------------------------
(* get_abstracts_for_papers, src/index.js 172-247 *)

NoSlice(urls) == urls

\* paperUrls.slice(0, 20)
Slice(urls) == SubSeq(urls, 1, IF Len(urls) < BatchLimit THEN Len(urls) ELSE BatchLimit)

\* paperDetails.push({title, abstract, authors, url, published, categories})
Detail(entry) == [url |-> entry.id, published |-> entry.published]

\* parseString resolves and, when there is an entry, the first one has the
\* elements the push indexes
LookupParses(r) ==
    /\ r.kind = "response"
    /\ r.data.wellFormed
    /\ r.data.entries # <<>> => r.data.entries[1].complete

\* the value get_abstracts_for_papers returns
AbstractsResult(urls, details) ==
    [kind |-> "abstracts", total_papers |-> 0, papers |-> details,
     requested |-> Len(urls), fetched |-> Len(details)]

\* the next turn of the loop over paperUrls (k is i + 1), or the code after it
NextPaper(id, k, urls, details, outcomes, log) ==
    /\ idx' = k
    /\ paperUrls' = urls
    /\ paperDetails' = details
    /\ served' = outcomes
    /\ IF k <= Len(urls)
       THEN /\ \E s \in Enter(ArxivId(urls[k]), PaperMaxRetries, PaperBaseDelay) :
                  fetch' = s[1] /\ wtimer' = s[2]
            /\ wlog' = Append(log, FetchEv(ArxivId(urls[k])))
            /\ wpc' = "abstracts_fetch"
            /\ reply' = NoReply
            /\ UNCHANGED stdout
       ELSE /\ fetch' = NoFetch
            /\ wtimer' = Off
            /\ wlog' = log
            /\ wpc' = "idle"
            /\ reply' = AbstractsResult(urls, details)
            /\ stdout' = stdout \o ResultLine(id, AbstractsResult(urls, details))

\* a tools/call request for get_abstracts_for_papers arrives
AbstractsCall ==
    /\ wpc = "idle"
    /\ inbox # <<>>
    /\ Head(inbox).method = "tools/call"
    /\ Head(inbox).name = "get_abstracts_for_papers"
    /\ inbox' = Tail(inbox)
    /\ wreq' = Head(inbox)
    /\ NextPaper(Head(inbox).id, 1, Slice(Head(inbox).urls), <<>>, <<>>, <<>>)
    /\ UNCHANGED <<allPapers, wrote, channelVars, curatorVars>>

\* fetchWithRetry(apiUrl, 2, 500) has ended: parse and push, or the catch block
AbstractsFetched ==
    /\ wpc = "abstracts_fetch"
    /\ fetch.status \in {"returned", "thrown"}
    /\ IF LookupParses(fetch.result)
       THEN LET papers == fetch.result.data.entries
                details == IF Len(papers) > 0
                           THEN Append(paperDetails, Detail(papers[1]))
                           ELSE paperDetails
                outcomes == Append(served, Outcome(TRUE, papers))
            IN IF idx - 1 < Len(paperUrls) - 1
               THEN /\ paperDetails' = details
                    /\ served' = outcomes
                    /\ wlog' = Append(wlog, DelayEv(PaperPacing))
                    /\ wtimer' = PaperPacing
                    /\ fetch' = NoFetch
                    /\ wpc' = "abstracts_pace"
                    /\ UNCHANGED <<idx, paperUrls, reply, stdout>>
               ELSE NextPaper(wreq.id, idx + 1, paperUrls, details, outcomes, wlog)
       ELSE NextPaper(wreq.id, idx + 1, paperUrls, paperDetails,
                      Append(served, Outcome(FALSE, <<>>)), wlog)
    /\ UNCHANGED <<inbox, wreq, allPapers, wrote, channelVars, curatorVars>>

\* the 1 s between papers is over
AbstractsPaced ==
    /\ wpc = "abstracts_pace"
    /\ wtimer = 0
    /\ NextPaper(wreq.id, idx + 1, paperUrls, paperDetails, served, wlog)
    /\ UNCHANGED <<inbox, wreq, allPapers, wrote, channelVars, curatorVars>>

----------------------------------------------------------------------------
(* The request channel of the orchestrator, src/profile.txt 22-117 *)

\* the state the constructor leaves, and no output of the worker yet
ChannelIdle ==
    /\ stdout = <<>>
    /\ wrote = 0
    /\ messageId = 1
    /\ pendingRequests = {}
    /\ timers = <<>>
    /\ settles = <<>>
    /\ unmatched = {}
    /\ buffer = <<>>

\* resolve(parsed.result), reject(new Error(...)); strings is the text of the
\* strings of the result as the line gave them
Resolve(v, strings) == [call |-> "resolve", reason |-> "", value |-> v, strings |-> strings]
Reject(reason) == [call |-> "reject", reason |-> reason, value |-> NoReply, strings |-> <<>>]

\* sendRequest(method, params): the id, the table entry, the write, the timer
SendRequest(method, name, urls) ==
    LET id == messageId IN
    /\ messageId' = messageId + 1
    /\ pendingRequests' = pendingRequests \cup {id}
    /\ inbox' = Append(inbox, [id |-> id, method |-> method, name |-> name, urls |-> urls])
    /\ timers' = timers @@ (id :> RequestTimeout)
    /\ settles' = settles @@ (id :> <<>>)

ExpireKeepsEntry(table, id) ==
    IF id \in table[1]
    THEN <<table[1], [table[2] EXCEPT ![id] = Append(@, Reject("Request timeout"))]>>
    ELSE table

ExpireIgnored(table, id) == table

ExpireAll(table, id) ==
    IF id \in table[1]
    THEN <<{}, [k \in DOMAIN table[2] |->
                 IF k \in table[1] THEN Append(table[2][k], Reject("Request timeout"))
                 ELSE table[2][k]]>>
    ELSE table

\* if (this.pendingRequests.has(id)) { delete; reject(new Error('Request timeout')) }
\* table is <<pendingRequests, settles>>
Expire(table, id) ==
    IF id \in table[1]
    THEN <<table[1] \ {id}, [table[2] EXCEPT ![id] = Append(@, Reject("Request timeout"))]>>
    ELSE table

\* the callback of the setTimeout of request id
TimerFires(id) ==
    /\ id \in DOMAIN timers
    /\ timers[id] = 0
    /\ timers' = [k \in DOMAIN timers \ {id} |-> timers[k]]
    /\ pendingRequests' = Expire(<<pendingRequests, settles>>, id)[1]
    /\ settles' = Expire(<<pendingRequests, settles>>, id)[2]
    /\ UNCHANGED <<messageId, unmatched, buffer, inbox, stdout, wrote, workerVars, curatorVars>>

\* data.toString(): UTF-8 decoding of one chunk on its own. The two bytes of a
\* two-byte character give the character; a first byte without its second, or
\* a second byte without its first, gives U+FFFD.
RECURSIVE Decode(_)
Decode(data) ==
    IF data = <<>> THEN <<>>
    ELSE IF Head(data).c = "lead" /\ Len(data) >= 2 /\ data[2].c = "cont"
         THEN <<Byte("char")>> \o Decode(SubSeq(data, 3, Len(data)))
    ELSE IF Head(data).c \in {"lead", "cont"}
         THEN <<Byte("U+FFFD")>> \o Decode(Tail(data))
    ELSE <<Head(data)>> \o Decode(Tail(data))

\* this.buffer.split('\n'): <<the lines before each newline, the text after the last>>
RECURSIVE Split(_, _, _)
Split(text, lines, current) ==
    IF text = <<>> THEN <<lines, current>>
    ELSE IF Head(text).c = "nl"
         THEN Split(Tail(text), Append(lines, current), <<>>)
         ELSE Split(Tail(text), lines, Append(current, Head(text)))

\* line.trim()
RECURSIVE Trim(_)
Trim(line) ==
    IF line = <<>> THEN <<>>
    ELSE IF Head(line).c = " " THEN Trim(Tail(line))
    ELSE IF line[Len(line)].c = " " THEN Trim(SubSeq(line, 1, Len(line) - 1))
    ELSE line

\* JSON.parse(line.trim()): an object, or a throw. The characters between the
\* two parts of the object are text inside one of its strings.
Parse(text) ==
    IF /\ Len(text) >= 2
       /\ text[1].c = "{id"
       /\ text[Len(text)].c \in {"result}", "error}"}
       /\ \A k \in 2..(Len(text) - 1) : text[k].c \in {"char", "U+FFFD"}
    THEN [ok |-> TRUE, id |-> text[1].n, error |-> text[Len(text)].c = "error}",
          message |-> text[Len(text)].s, result |-> text[Len(text)].v,
          strings |-> [k \in 1..(Len(text) - 2) |-> text[k + 1].c]]
    ELSE [ok |-> FALSE, id |-> 0, error |-> FALSE, message |-> "", result |-> NoReply,
          strings |-> <<>>]

\* parsed.error.message || 'Unknown error'
ErrorMessage(parsed) == IF parsed.message = "" THEN "Unknown error" ELSE parsed.message

\* what the line's object settles its request with
Settlement(parsed) ==
    IF parsed.error THEN Reject(ErrorMessage(parsed))
    ELSE Resolve(parsed.result, parsed.strings)

HandleLineOldest(table, line) ==
    LET parsed == Parse(Trim(line)) IN
    IF Trim(line) # <<>> /\ parsed.ok /\ parsed.id # 0 /\ table[1] # {}
    THEN <<table[1] \ {Min(table[1])},
           [table[2] EXCEPT ![Min(table[1])] = Append(@, Settlement(parsed))],
           table[3]>>
    ELSE table

HandleLineKeepsEntry(table, line) ==
    LET parsed == Parse(Trim(line)) IN
    IF Trim(line) # <<>> /\ parsed.ok
    THEN IF parsed.id # 0 /\ parsed.id \in table[1]
         THEN <<table[1],
                [table[2] EXCEPT ![parsed.id] = Append(@, Settlement(parsed))],
                table[3]>>
         ELSE <<table[1], table[2], table[3] \cup {parsed.id}>>
    ELSE table

\* the body of the loop over lines; table is <<pendingRequests, settles, unmatched>>
HandleLine(table, line) ==
    CHOOSE after \in
        {IF Trim(line) # <<>> /\ parsed.ok
         THEN IF parsed.id # 0 /\ parsed.id \in table[1]
              THEN <<table[1] \ {parsed.id},
                     [table[2] EXCEPT ![parsed.id] = Append(@, Settlement(parsed))],
                     table[3]>>
              ELSE <<table[1], table[2], table[3] \cup {parsed.id}>>
         ELSE table : parsed \in {Parse(Trim(line))}} : TRUE

RECURSIVE HandleLines(_, _)
HandleLines(table, lines) ==
    IF lines = <<>> THEN table
    ELSE HandleLines(HandleLine(table, Head(lines)), Tail(lines))

\* the ids of the lines that parse
IdsOfPipe(lines) ==
    {Parse(Trim(lines[k])).id : k \in {j \in 1..Len(lines) : Parse(Trim(lines[j])).ok}}

\* the body of the 'data' handler for the chunk data; reader is
\* <<buffer, pendingRequests, settles, unmatched>>
OnData(reader, data) ==
    CHOOSE after \in UNION {{<<split[2], table[1], table[2], table[3]>> :
                               table \in {HandleLines(<<reader[2], reader[3], reader[4]>>,
                                                       split[1])}} :
                            split \in {Split(reader[1] \o Decode(data), <<>>, <<>>)}} : TRUE

\* the 'data' handler of the worker's stdout, for a chunk of n bytes
StdoutData(n) ==
    /\ n \in 1..Len(stdout)
    /\ \E after \in {OnData(<<buffer, pendingRequests, settles, unmatched>>,
                            SubSeq(stdout, 1, n))} :
          /\ buffer' = after[1]
          /\ pendingRequests' = after[2]
          /\ settles' = after[3]
          /\ unmatched' = after[4]
    /\ stdout' = SubSeq(stdout, n + 1, Len(stdout))
    /\ UNCHANGED <<messageId, timers, inbox, wrote, workerVars, curatorVars>>

\* nothing recorded: the worker has not exited
NoOrphans == [pending |-> {}, answered |-> {}]

\* the requests that have a complete response line among the bytes the
\* orchestrator has not handled yet
InPipe ==
    IdsOfPipe(Split(buffer \o Decode(stdout), <<>>, <<>>)[1])

\* the child process ends: it writes nothing more and its timers are gone; what
\* it wrote stays in the pipe for the 'data' handler, and nothing in the
\* orchestrator listens for the exit
WorkerExits ==
    /\ wpc # "exited"
    /\ wpc' = "exited"
    /\ wtimer' = Off
    /\ orphans' = [pending |-> pendingRequests, answered |-> InPipe \cap pendingRequests]
    /\ UNCHANGED <<inbox, fetch, wreq, idx, allPapers, paperUrls, paperDetails, served,
                   wlog, reply, stdout, wrote, channelVars>>
    /\ UNCHANGED <<env, serverProcess, opc, otimer, options, run, result, scored>>

----------------------------------------------------------------------------
(* Time *)

Running == {t \in {wtimer, otimer} : t # Off} \cup {timers[id] : id \in DOMAIN timers}

Tick ==
    /\ Running # {}
    /\ 0 \notin Running
    /\ wtimer' = IF wtimer = Off THEN Off ELSE wtimer - Min(Running)
    /\ otimer' = IF otimer = Off THEN Off ELSE otimer - Min(Running)
    /\ timers' = [id \in DOMAIN timers |-> timers[id] - Min(Running)]
    /\ UNCHANGED <<inbox, fetch, handlerVars, stdout, wrote>>
    /\ UNCHANGED <<messageId, pendingRequests, settles, unmatched, buffer>>
    /\ UNCHANGED <<env, serverProcess, opc, options, run, result, scored, orphans>>

----------------------------------------------------------------------------
(* The orchestrator, src/profile.txt 30-117 and 119-382 *)

StartupWait == 2000
ScoringPacing == 1000
DefaultDaysBack == 2
DefaultMaxCandidates == 10
DefaultMinScore == 5

\* the day new Date() gives when curatePapers computes its cutoff
Days == {4, 5}

\* any network, any feed
AnyNet == [weather |-> "any", listing |-> "any", today |-> 4]

\* the substrings `${paper.title} ${paper.authors}`.toLowerCase() has, by paper
TextOf(u) ==
    CASE u = "u1" -> {"reward", "hacking"}
      [] u = "u3" -> {"graph", "safety"}
      [] OTHER -> {"graph", "theory"}

Keywords ==
    {"reward", "rlhf", "alignment", "preference", "human feedback", "constitutional",
     "safety", "robustness", "evaluation", "benchmark", "inference", "post-training",
     "fine-tuning"}

\* keywords.some(keyword => text.includes(keyword))
HasKeyword(paper) == \E keyword \in Keywords : keyword \in TextOf(paper.url)

\* paperDate >= cutoffDate
IsRecent(paper) == paper.published >= env.today - options.daysBack

DefaultOptions ==
    [daysBack |-> DefaultDaysBack, maxCandidates |-> DefaultMaxCandidates,
     minScore |-> DefaultMinScore]

NoRun ==
    [awaiting |-> 0, titleData |-> NoReply, recentPapers |-> <<>>, candidates |-> <<>>,
     abstractData |-> NoReply, analyzedPapers |-> <<>>, i |-> 0]

NoResult ==
    [kind |-> "none", message |-> "", total_scanned |-> 0, recent_papers |-> 0,
     days_back |-> 0, candidates |-> 0, analyzed |-> <<>>, relevant |-> <<>>]

\* catch (error) { throw error } of curatePapers
Thrown(message) == [NoResult EXCEPT !.kind = "thrown", !.message = message]

\* the object curatePapers returns
Summary(titleData, recentPapers, candidates, analyzed, relevant) ==
    [kind |-> "summary", message |-> "", total_scanned |-> titleData.total_papers,
     recent_papers |-> Len(recentPapers), days_back |-> options.daysBack,
     candidates |-> Len(candidates), analyzed |-> analyzed, relevant |-> relevant]

CuratorIdle ==
    /\ env = AnyNet
    /\ serverProcess = "null"
    /\ opc = "main"
    /\ otimer = Off
    /\ options = DefaultOptions
    /\ run = NoRun
    /\ result = NoResult
    /\ orphans = NoOrphans
    /\ scored = <<>>

\* the SDK's answer to initialize
InitializeResult == [NoReply EXCEPT !.kind = "initialize"]

\* the awaited request has been settled: its continuation is ready to run
Resumable == run.awaiting # 0 /\ settles[run.awaiting] # <<>>
Answer == settles[run.awaiting][1]

\* JSON.parse(result.content[0].text) gives an object
HasContent(value) == value.kind \in {"titles", "abstracts"}

\* what the rejected await, or the failed JSON.parse, throws
ErrorOf(answer) == IF answer.call = "reject" THEN answer.reason ELSE "TypeError"

\* connect(): spawn the worker, then wait 2 s
Connect ==
    /\ opc = "main"
    /\ serverProcess' = "running"
    /\ otimer' = StartupWait
    /\ opc' = "startup"
    /\ UNCHANGED <<inbox, workerVars, stdout, wrote, channelVars>>
    /\ UNCHANGED <<env, options, run, result, scored, orphans>>

\* the 2 s are over: sendRequest('initialize', ...)
StartupOver ==
    /\ opc = "startup"
    /\ otimer = 0
    /\ otimer' = Off
    /\ SendRequest("initialize", "", <<>>)
    /\ run' = [run EXCEPT !.awaiting = messageId]
    /\ opc' = "initialize"
    /\ UNCHANGED <<workerVars, stdout, wrote, unmatched, buffer>>
    /\ UNCHANGED <<env, serverProcess, options, result, scored, orphans>>

\* the end of main: the catch and finally blocks, disconnect() kills the worker
Exit(outcome, locals) ==
    /\ result' = outcome
    /\ run' = locals
    /\ serverProcess' = "null"
    /\ opc' = "exited"
    /\ wpc' = "killed"
    /\ wtimer' = Off
    /\ otimer' = Off
    /\ UNCHANGED <<inbox, fetch, wreq, idx, allPapers, paperUrls, paperDetails, served,
                   wlog, reply, stdout, wrote, channelVars, env, options, scored, orphans>>

\* the worker's SDK answers initialize
InitializeCall ==
    /\ wpc = "idle"
    /\ inbox # <<>>
    /\ Head(inbox).method = "initialize"
    /\ inbox' = Tail(inbox)
    /\ stdout' = stdout \o ResultLine(Head(inbox).id, InitializeResult)
    /\ UNCHANGED <<workerVars, wrote, channelVars, curatorVars>>

\* the worker's SDK refuses initialize
InitializeRefused ==
    /\ wpc = "idle"
    /\ inbox # <<>>
    /\ Head(inbox).method = "initialize"
    /\ inbox' = Tail(inbox)
    /\ \E message \in {"Unsupported protocol version", ""} :
          stdout' = stdout \o ErrorLine(Head(inbox).id, message)
    /\ UNCHANGED <<workerVars, wrote, channelVars, curatorVars>>

InitializedUnawaited ==
    /\ opc = "initialize"
    /\ SendRequest("tools/call", "get_all_titles", <<>>)
    /\ run' = [run EXCEPT !.awaiting = messageId]
    /\ opc' = "titles"
    /\ UNCHANGED <<workerVars, stdout, wrote, unmatched, buffer>>
    /\ UNCHANGED <<env, serverProcess, otimer, options, result, scored, orphans>>

InitializedAnyway ==
    /\ opc = "initialize"
    /\ Resumable
    /\ SendRequest("tools/call", "get_all_titles", <<>>)
    /\ run' = [run EXCEPT !.awaiting = messageId]
    /\ opc' = "titles"
    /\ UNCHANGED <<workerVars, stdout, wrote, unmatched, buffer>>
    /\ UNCHANGED <<env, serverProcess, otimer, options, result, scored, orphans>>

\* connect() returns and main calls curatePapers, which calls fetchTitles; or
\* connect() throws into main's catch
Initialized ==
    /\ opc = "initialize"
    /\ Resumable
    /\ IF Answer.call = "resolve"
       THEN /\ SendRequest("tools/call", "get_all_titles", <<>>)
            /\ run' = [run EXCEPT !.awaiting = messageId]
            /\ opc' = "titles"
            /\ UNCHANGED <<workerVars, stdout, wrote, unmatched, buffer>>
            /\ UNCHANGED <<env, serverProcess, otimer, options, result, scored, orphans>>
       ELSE Exit(Thrown(ErrorOf(Answer)), [run EXCEPT !.awaiting = 0])

NoCap(papers, n) == papers

\* .slice(0, maxCandidates)
Cap(papers, n) == SubSeq(papers, 1, IF Len(papers) < n THEN Len(papers) ELSE n)

NeverShortCircuit(candidates) == FALSE

\* if (candidates.length === 0)
ShortCircuit(candidates) == Len(candidates) = 0

\* candidates.map(p => p.url)
UrlsOf(papers) == [k \in 1..Len(papers) |-> papers[k].url]

\* fetchTitles returns: the two filters, then the short circuit or fetchAbstracts
TitlesReceived ==
    /\ opc = "titles"
    /\ Resumable
    /\ IF Answer.call = "resolve" /\ HasContent(Answer.value)
       THEN LET titleData == Answer.value
                recentPapers == SelectSeq(titleData.papers, IsRecent)
                candidates == Cap(SelectSeq(recentPapers, HasKeyword), options.maxCandidates)
                locals == [run EXCEPT !.awaiting = 0, !.titleData = titleData,
                                      !.recentPapers = recentPapers,
                                      !.candidates = candidates]
            IN IF ShortCircuit(candidates)
               THEN Exit(Summary(titleData, recentPapers, candidates, <<>>, <<>>), locals)
               ELSE /\ SendRequest("tools/call", "get_abstracts_for_papers",
                                   UrlsOf(candidates))
                    /\ run' = [locals EXCEPT !.awaiting = messageId]
                    /\ opc' = "abstracts"
                    /\ UNCHANGED <<workerVars, stdout, wrote, unmatched, buffer>>
                    /\ UNCHANGED <<env, serverProcess, otimer, options, result, scored, orphans>>
       ELSE Exit(Thrown(ErrorOf(Answer)), [run EXCEPT !.awaiting = 0])

\* The text of the scoring service, by the pieces the two regular expressions
\* and trim() tell apart: "Score: n/10 - ", other words, whitespace
Words == Byte("words")
ScorePrefix(n) == [Byte("Score: n/10 - ") EXCEPT !.n = n]

OracleScores == {3, 5, 7, 42}

\* response.data.response
OracleTexts ==
    {<<Words>>, <<Space, Words, Space>>}
    \cup {<<ScorePrefix(n), Words>> : n \in OracleScores}

\* what axios.post may do: fail, or answer with a text
OracleReplies ==
    {[ok |-> FALSE, text |-> <<>>]} \cup {[ok |-> TRUE, text |-> t] : t \in OracleTexts}

\* the reasoning and the full response of the catch block
FallbackReasoning == <<Byte("Analysis failed - Make sure Ollama is running")>>
ErrorResponse == <<Byte("Error")>>

\* result.match(/Score:\s*(\d+)/): where the text has a score
ScoreMatch(text) == {k \in 1..Len(text) : text[k].c = "Score: n/10 - "}

\* result.replace(/Score:\s*\d+\/10\s*-\s*/, '')
StripScore(text) ==
    IF ScoreMatch(text) = {} THEN text
    ELSE SubSeq(text, 1, Min(ScoreMatch(text)) - 1)
         \o SubSeq(text, Min(ScoreMatch(text)) + 1, Len(text))

FailureScoresOne(r) ==
    [score |-> IF r.ok /\ ScoreMatch(r.text) # {} THEN r.text[Min(ScoreMatch(r.text))].n ELSE 1,
     reasoning |-> IF r.ok THEN Trim(StripScore(r.text)) ELSE FallbackReasoning,
     full_response |-> IF r.ok THEN r.text ELSE ErrorResponse]

\* analyzeWithLlama: scoreMatch ? parseInt(scoreMatch[1]) : 0, and 0 in the catch
Analysis(r) ==
    IF r.ok
    THEN [score |-> IF ScoreMatch(r.text) # {} THEN r.text[Min(ScoreMatch(r.text))].n ELSE 0,
          reasoning |-> Trim(StripScore(r.text)),
          full_response |-> r.text]
    ELSE [score |-> 0, reasoning |-> FallbackReasoning, full_response |-> ErrorResponse]

\* {...paper, llama_score, llama_reasoning, llama_full_response}
Analyzed(paper, analysis) ==
    [url |-> paper.url, published |-> paper.published, llama_score |-> analysis.score,
     llama_reasoning |-> analysis.reasoning,
     llama_full_response |-> analysis.full_response]

AscendingScore(a, b) == a.llama_score - b.llama_score

\* (a, b) => b.llama_score - a.llama_score
ByScore(a, b) == b.llama_score - a.llama_score

RECURSIVE InsertRanked(_, _)
InsertRanked(sorted, p) ==
    IF sorted = <<>> THEN <<p>>
    ELSE IF ByScore(sorted[Len(sorted)], p) > 0
         THEN Append(InsertRanked(SubSeq(sorted, 1, Len(sorted) - 1), p), sorted[Len(sorted)])
         ELSE Append(sorted, p)

RECURSIVE Rank(_)
Rank(papers) ==
    IF papers = <<>> THEN <<>>
    ELSE InsertRanked(Rank(SubSeq(papers, 1, Len(papers) - 1)), papers[Len(papers)])

\* paper.llama_score >= minScore
Passes(paper) == paper.llama_score >= options.minScore

\* analyzedPapers.filter(...).sort(...)
Relevant(analyzed) == Rank(SelectSeq(analyzed, Passes))

\* fetchAbstracts returns: the scoring loop starts, or has nothing to do
AbstractsReceived ==
    /\ opc = "abstracts"
    /\ Resumable
    /\ IF Answer.call = "resolve" /\ HasContent(Answer.value)
       THEN LET abstractData == Answer.value
                locals == [run EXCEPT !.awaiting = 0, !.abstractData = abstractData]
            IN IF Len(abstractData.papers) = 0
               THEN Exit(Summary(run.titleData, run.recentPapers, run.candidates,
                                 <<>>, <<>>), locals)
               ELSE /\ run' = [locals EXCEPT !.i = 1]
                    /\ orphans' = orphans
                    /\ scored' = Append(scored, abstractData.papers[1].url)
                    /\ opc' = "scoring"
                    /\ UNCHANGED <<inbox, workerVars, stdout, wrote, channelVars>>
                    /\ UNCHANGED <<env, serverProcess, otimer, options, result>>
       ELSE Exit(Thrown(ErrorOf(Answer)), [run EXCEPT !.awaiting = 0])

\* analyzeWithLlama returns: push, then the 1 s wait or the end of the loop
AnalyzeSettles ==
    /\ opc = "scoring"
    /\ \E r \in OracleReplies :
          LET paper == run.abstractData.papers[run.i]
              analyzed == Append(run.analyzedPapers, Analyzed(paper, Analysis(r)))
              locals == [run EXCEPT !.analyzedPapers = analyzed]
          IN IF run.i < Len(run.abstractData.papers)
             THEN /\ run' = locals
                  /\ otimer' = ScoringPacing
                  /\ opc' = "scoring_pace"
                  /\ UNCHANGED <<inbox, workerVars, stdout, wrote, channelVars>>
                  /\ UNCHANGED <<env, serverProcess, options, result, scored, orphans>>
             ELSE Exit(Summary(run.titleData, run.recentPapers, run.candidates,
                               analyzed, Relevant(analyzed)), locals)

\* the 1 s between two scoring calls is over
ScoringPaced ==
    /\ opc = "scoring_pace"
    /\ otimer = 0
    /\ otimer' = Off
    /\ run' = [run EXCEPT !.i = @ + 1]
    /\ orphans' = orphans
    /\ scored' = Append(scored, run.abstractData.papers[run.i + 1].url)
    /\ opc' = "scoring"
    /\ UNCHANGED <<inbox, workerVars, stdout, wrote, channelVars>>
    /\ UNCHANGED <<env, serverProcess, options, result>>

----------------------------------------------------------------------------
(* fetchWithRetry on its own, called with any arguments *)

BaseDelays == {PaperBaseDelay, DefaultBaseDelay}

InitFetch ==
    /\ \E m \in 0..MaxRetriesArg, b \in BaseDelays : fetch = NewFetch("cs.LG", m, b)
    /\ wtimer = Off
    /\ inbox = <<>>
    /\ HandlerIdle
    /\ ChannelIdle
    /\ CuratorIdle

\* the call itself: fetchWithRetry(url, maxRetries, baseDelay)
FetchCall ==
    /\ fetch.status = "idle"
    /\ \E s \in Enter(fetch.url, fetch.maxRetries, fetch.baseDelay) :
          /\ fetch' = s[1]
          /\ wtimer' = s[2]
    /\ UNCHANGED <<inbox, handlerVars, stdout, wrote, channelVars, curatorVars>>

NextFetch == FetchCall \/ FetchSettle \/ FetchRetry \/ Tick

SpecFetch == InitFetch /\ [][NextFetch]_vars

\* the attempts made so far that succeeded
Successes(f) == {k \in 1..Len(f.outcomes) : f.outcomes[k]}

\* C3: with maxRetries >= 1, once an attempt k <= maxRetries has succeeded (the
\* first to do so), fetchWithRetry has returned that attempt's response, has
\* made exactly k attempts and none after it, and has waited exactly k-1 times,
\* the i-th wait being baseDelay * 2^(i-1).
C3_ReturnsFirstSuccess ==
    (fetch.maxRetries >= 1 /\ Successes(fetch) # {}) =>
        LET k == Min(Successes(fetch)) IN
        /\ k <= fetch.maxRetries
        /\ fetch.status = "returned"
        /\ fetch.result.kind = "response"
        /\ fetch.result.attempt = k
        /\ fetch.tries = k
        /\ Len(fetch.outcomes) = k
        /\ Len(fetch.waits) = k - 1
        /\ \A i \in 1..(k - 1) : fetch.waits[i] = fetch.baseDelay * Pow2(i - 1)
        /\ wtimer = Off

\* two failures, then a success: the delays are baseDelay and 2*baseDelay
C3_Witness ==
    /\ fetch.status = "returned"
    /\ fetch.outcomes = <<FALSE, FALSE, TRUE>>
    /\ fetch.waits = <<fetch.baseDelay, 2 * fetch.baseDelay>>

----------------------------------------------------------------------------
(* get_all_titles on its own: one call, any feed *)

InitTitles ==
    /\ inbox = <<ToolCall(1, "get_all_titles", <<>>)>>
    /\ fetch = NoFetch
    /\ wtimer = Off
    /\ HandlerIdle
    /\ ChannelIdle
    /\ CuratorIdle

NextTitles == TitlesCall \/ TitlesFetched \/ TitlesPaced \/ FetchSettle \/ FetchRetry \/ Tick

SpecTitles == InitTitles /\ [][NextTitles]_vars

IsPrefix(a, b) == Len(a) <= Len(b) /\ \A k \in 1..Len(a) : a[k] = b[k]

\* what the handler called fetchWithRetry for, in order
Fetches(log) ==
    LET calls == SelectSeq(log, LAMBDA e : e.op = "fetch")
    IN [k \in 1..Len(calls) |-> calls[k].what]

\* the categories whose fetch and parse succeeded, and what each gave
Succeeded == {k \in 1..Len(served) : served[k].ok}
IdsOf(k) == Range(served[k].ids)
FetchedIds == UNION {IdsOf(k) : k \in Succeeded}
PositionsOf(u, papers) == {j \in 1..Len(papers) : papers[j].url = u}

\* C6: get_all_titles attempts the categories in the declared order, each once,
\* whatever fails; a failed category adds no paper and the later ones are still
\* attempted; the handler returns the structured result, built from exactly
\* the categories that succeeded.
C6_EveryCategoryAttempted ==
    /\ IsPrefix(Fetches(wlog), coreCategories)
    /\ Len(served) \in {Len(Fetches(wlog)) - 1, Len(Fetches(wlog))}
    /\ {<<p.url, p.category>> : p \in Range(allPapers)}
          = UNION {{<<u, coreCategories[k]>> : u \in IdsOf(k)} : k \in Succeeded}
    /\ reply.kind # "none" =>
          /\ reply.kind = "titles"
          /\ Fetches(wlog) = coreCategories
          /\ Len(served) = Len(coreCategories)
          /\ {p.url : p \in Range(reply.papers)} = FetchedIds
          /\ reply.total_papers = Cardinality(FetchedIds)
          /\ Len(reply.papers) = reply.total_papers

\* the first category fails, a later one succeeds with papers
C6_Witness ==
    /\ reply.kind = "titles"
    /\ ~served[1].ok
    /\ ~served[3].ok
    /\ served[4].ok
    /\ reply.total_papers = 2

C6_AllFailWitness ==
    /\ reply.kind = "titles"
    /\ Succeeded = {}
    /\ reply.papers = <<>>

\* the categories the merged record of a paper carries
CategoriesOf(paper) == {paper.category}

\* C8 as stated: a paper fetched under two categories ends as exactly one
\* record whose categories are the union of the two.
C8_MergedCategoriesAreUnion ==
    reply.kind = "titles" =>
        \A u \in FetchedIds :
            LET sources == {coreCategories[k] : k \in {c \in Succeeded : u \in IdsOf(c)}}
            IN Cardinality(sources) >= 2 =>
                 /\ Cardinality(PositionsOf(u, reply.papers)) = 1
                 /\ \A j \in PositionsOf(u, reply.papers) :
                        CategoriesOf(reply.papers[j]) = sources

\* C9: the returned list has no two papers with one id, keeps for each id the
\* record of its first occurrence in category order, has every fetched id, and
\* is ordered by published, descending.
C9_UniqueFirstSorted ==
    reply.kind = "titles" =>
        /\ \A a, b \in 1..Len(reply.papers) :
              a # b => reply.papers[a].url # reply.papers[b].url
        /\ \A j \in 1..Len(reply.papers) :
              LET u == reply.papers[j].url IN
              /\ reply.papers[j] = allPapers[Min(PositionsOf(u, allPapers))]
              /\ reply.papers[j].category
                    = coreCategories[Min({k \in Succeeded : u \in IdsOf(k)})]
        /\ FetchedIds \subseteq {p.url : p \in Range(reply.papers)}
        /\ \A a, b \in 1..Len(reply.papers) :
              a < b => reply.papers[a].published >= reply.papers[b].published

\* a paper was fetched twice, and the sort moved a newer paper to the front
C9_Witness ==
    /\ reply.kind = "titles"
    /\ Len(reply.papers) >= 2
    /\ Len(allPapers) > Len(reply.papers)
    /\ allPapers[1].published < reply.papers[1].published
    /\ reply.papers[1].published > reply.papers[Len(reply.papers)].published

----------------------------------------------------------------------------
(* get_abstracts_for_papers on its own: one call, any list of identifiers *)

Padding(n) == [k \in 1..n |-> StableUrl]

UrlLists(n) == UNION {[1..k -> Urls] : k \in 0..n}

\* short lists, and lists that reach past the batch limit
InputLists ==
    {Padding(n) \o tail : n \in {0, BatchLimit - 2}, tail \in UrlLists(MaxUrls)}

InitAbstracts ==
    /\ \E urls \in InputLists : inbox = <<ToolCall(1, "get_abstracts_for_papers", urls)>>
    /\ fetch = NoFetch
    /\ wtimer = Off
    /\ HandlerIdle
    /\ ChannelIdle
    /\ CuratorIdle

NextAbstracts ==
    AbstractsCall \/ AbstractsFetched \/ AbstractsPaced \/ FetchSettle \/ FetchRetry \/ Tick

SpecAbstracts == InitAbstracts /\ [][NextAbstracts]_vars

\* the lookups, by position in the request, that gave an entry
Found == SelectSeq([k \in 1..Len(served) |-> k],
                   LAMBDA k : served[k].ok /\ served[k].ids # <<>>)

\* C7: get_abstracts_for_papers looks up only the first 20 identifiers, in input
\* order; requested is min(length, 20); the returned papers are the looked-up
\* identifiers whose lookup gave an entry, in input order; fetched is their
\* number; a failed lookup neither ends the batch nor leaves a stub.
C7_BatchOfLookups ==
    LET input == wreq.urls
        n == IF Len(input) < BatchLimit THEN Len(input) ELSE BatchLimit
    IN /\ IsPrefix(Fetches(wlog), [k \in 1..n |-> ArxivId(input[k])])
       /\ Len(served) \in {Len(Fetches(wlog)) - 1, Len(Fetches(wlog))}
       /\ Len(paperDetails) = Len(Found)
       /\ \A j \in 1..Len(Found) : paperDetails[j].url = input[Found[j]]
       /\ reply.kind # "none" =>
             /\ reply.kind = "abstracts"
             /\ Len(Fetches(wlog)) = n
             /\ Len(served) = n
             /\ reply.requested = n
             /\ reply.papers = paperDetails
             /\ reply.fetched = Len(reply.papers)

\* a request longer than the batch limit, with a failed lookup before a found one
C7_Witness ==
    /\ reply.kind = "abstracts"
    /\ Len(wreq.urls) > BatchLimit
    /\ reply.requested = BatchLimit
    /\ reply.fetched = BatchLimit - 1
    /\ ~served[BatchLimit - 1].ok
    /\ served[BatchLimit].ok

\* a short request: one lookup fails, one finds no entry, one finds the paper
C7_ShortWitness ==
    /\ reply.kind = "abstracts"
    /\ reply.requested = 2
    /\ reply.fetched = 1
    /\ ~served[1].ok
    /\ reply.papers[1].url = wreq.urls[2]

----------------------------------------------------------------------------
(* The channel on its own: any requests, any lines from the worker *)

\* a caller sends a request
ClientSends ==
    /\ messageId <= MaxRequests
    /\ SendRequest("tools/call", "get_all_titles", <<>>)
    /\ UNCHANGED <<unmatched, buffer, stdout, wrote, workerVars, curatorVars>>

\* what the worker may write: an answer for any id, an error with and without
\* a message, and other text
WorkerLines ==
    {ResultLine(id, NoReply) : id \in 0..MaxRequests}
    \cup {ErrorLine(1, "Unknown tool"), ErrorLine(MaxRequests, "")}
    \cup {<<Space, Newline>>, <<IdPart(1), Junk, Newline>>}

WorkerWrites ==
    /\ wrote < MaxLines
    /\ wrote' = wrote + 1
    /\ \E line \in WorkerLines : stdout' = stdout \o line
    /\ UNCHANGED <<inbox, workerVars, channelVars, curatorVars>>

InitChannel ==
    /\ inbox = <<>>
    /\ fetch = NoFetch
    /\ wtimer = Off
    /\ HandlerIdle
    /\ ChannelIdle
    /\ CuratorIdle

NextChannel ==
    \/ ClientSends
    \/ WorkerWrites
    \/ \E n \in 1..MaxChunk : StdoutData(n)
    \/ \E id \in 1..MaxRequests : TimerFires(id)
    \/ Tick

SpecChannel == InitChannel /\ [][NextChannel]_vars

\* the requests sent so far, and those whose 60 s are over
Sent == 1..(messageId - 1)
Expired == {id \in Sent : id \notin DOMAIN timers}
TimedOut(id) == settles[id] = <<Reject("Request timeout")>>

\* the complete lines the step reads from the worker's stdout, as parsed
ReadsStdout == Len(stdout') < Len(stdout)
RawLinesRead ==
    IF ReadsStdout
    THEN Split(buffer \o Decode(SubSeq(stdout, 1, Len(stdout) - Len(stdout'))), <<>>, <<>>)[1]
    ELSE <<>>
ParsedLines(raw) == [k \in 1..Len(raw) |-> Parse(Trim(raw[k]))]
IdsOfLines(read) == {read[k].id : k \in {j \in 1..Len(read) : read[j].ok}}

\* C1: a request whose 60 s pass without a response line for it is rejected
\* with the timeout error and leaves the table; a response line for it that
\* comes later settles nothing and changes no entry of the table.
C1_TimeoutThenLateIgnored ==
    [][\A raw \in {RawLinesRead} : \A Read \in {ParsedLines(raw)} :
       \A IdsRead \in {IdsOfLines(Read)} :
       /\ \A id \in Sent' :
            /\ id \in pendingRequests' => (id \in DOMAIN timers' /\ settles'[id] = <<>>)
            /\ id \in Expired' => (id \notin pendingRequests' /\ Len(settles'[id]) = 1)
       /\ \A id \in Sent :
            /\ (id \in pendingRequests /\ id \in Expired') => TimedOut(id)'
            /\ TimedOut(id)' /\ ~TimedOut(id) => (timers[id] = 0 /\ ~ReadsStdout)
            /\ id \in Expired => (settles'[id] = settles[id] /\ id \notin pendingRequests')
       /\ (ReadsStdout /\ IdsRead \subseteq Expired) =>
             (pendingRequests' = pendingRequests /\ settles' = settles)]_vars

\* request 1 timed out and a response line for it was read afterwards
C1_Witness ==
    /\ 1 \in Expired
    /\ TimedOut(1)
    /\ 1 \in unmatched
    /\ 2 \in pendingRequests

\* C2: the ids of the requests are strictly increasing, each used once; a
\* response line with id k settles the pending request k and no other, with
\* the result when it has no error member and with the error's message when
\* it has one; a line whose id is not pending settles nothing.
C2_Correlation ==
    [][\A raw \in {RawLinesRead} : \A Read \in {ParsedLines(raw)} :
       \A IdsRead \in {IdsOfLines(Read)} :
       /\ DOMAIN settles' = Sent'
       /\ pendingRequests' \subseteq Sent'
       /\ Len(inbox') = messageId' - 1
       /\ \A k \in 1..Len(inbox') : inbox'[k].id = k
       /\ messageId' >= messageId
       /\ \A id \in Sent :
            settles'[id] # settles[id] =>
              /\ id \in pendingRequests
              /\ id \notin pendingRequests'
              /\ ReadsStdout => id \in IdsRead
       /\ \A id \in Sent :
            (id \in pendingRequests /\ id \notin pendingRequests') =>
               \/ ~ReadsStdout /\ TimedOut(id)'
               \/ /\ ReadsStdout
                  /\ LET first == Min({k \in 1..Len(Read) : Read[k].ok /\ Read[k].id = id})
                         line == Read[first]
                     IN settles'[id] =
                          <<IF line.error
                            THEN Reject(IF line.message = "" THEN "Unknown error"
                                        ELSE line.message)
                            ELSE Resolve(line.result, line.strings)>>
       /\ (ReadsStdout /\ IdsRead \cap pendingRequests = {}) =>
             (pendingRequests' = pendingRequests /\ settles' = settles)]_vars

\* request 2 was answered before request 1, one with a result, one with an error
C2_Witness ==
    /\ messageId = 3
    /\ Len(settles[1]) = 1
    /\ settles[1][1].call = "reject"
    /\ settles[1][1].reason = "Unknown tool"
    /\ Len(settles[2]) = 1
    /\ settles[2][1].call = "resolve"

----------------------------------------------------------------------------
(* The whole run: main, connect, curatePapers and the worker it spawns *)

\* the networks of a run: a feed that answers, one that may refuse, one that
\* may stall, one that always stalls
Weathers == {"clear", "refusing", "stalling", "down"}

\* the feeds of a run
Listings == {"empty", "plain", "mixed"}

PipelineNets ==
    {[weather |-> w, listing |-> l, today |-> d] : w \in Weathers, l \in Listings, d \in Days}

InitPipeline ==
    /\ inbox = <<>>
    /\ fetch = NoFetch
    /\ wtimer = Off
    /\ HandlerIdle
    /\ ChannelIdle
    /\ env \in PipelineNets
    /\ serverProcess = "null"
    /\ opc = "main"
    /\ otimer = Off
    /\ options = DefaultOptions
    /\ run = NoRun
    /\ result = NoResult
    /\ orphans = NoOrphans
    /\ scored = <<>>

\* the worker has a step it can take without waiting for anything
WorkerReady ==
    \/ wpc = "idle" /\ inbox # <<>>
    \/ wpc \in {"titles_fetch", "abstracts_fetch"} /\ fetch.status \in {"returned", "thrown"}

\* computing takes no time against the timers: time passes only when neither
\* process has a step to take
Quiet ==
    /\ ~Resumable
    /\ ~WorkerReady
    /\ stdout = <<>>
    /\ opc # "main"

NextPipeline ==
    \/ Connect
    \/ StartupOver
    \/ Initialized
    \/ TitlesReceived
    \/ AbstractsReceived
    \/ AnalyzeSettles
    \/ ScoringPaced
    \/ InitializeCall
    \/ TitlesCall
    \/ TitlesFetched
    \/ TitlesPaced
    \/ AbstractsCall
    \/ AbstractsFetched
    \/ AbstractsPaced
    \/ FetchSettle
    \/ FetchRetry
    \/ ~Resumable /\ \E n \in 1..MaxChunk : StdoutData(n)
    \/ ~Resumable /\ \E id \in DOMAIN timers : TimerFires(id)
    \/ Quiet /\ Tick

SpecPipeline == InitPipeline /\ [][NextPipeline]_vars

\* C5: a transient network failure never aborts the run: whatever the feed
\* and the channel do, curatePapers ends by returning a summary, also when the
\* worker's retries and pacing take longer than the 60 s of the request.
C5_TransientFailureNeverAborts ==
    opc = "exited" => result.kind = "summary"

\* the papers of a titles answer that pass the date and the keyword filter
Survivors(papers) ==
    {k \in 1..Len(papers) :
        /\ papers[k].published >= env.today - options.daysBack
        /\ \E keyword \in Keywords : keyword \in TextOf(papers[k].url)}

\* C10: when no paper of the titles answer survives the keyword filter,
\* curatePapers returns the summary with candidates 0, analyzed [] and
\* relevant [] at once; no request follows the titles request and the scoring
\* service is never called, then or later.
C10_NoMatchShortCircuits ==
    [][/\ (/\ opc = "titles"
           /\ Resumable
           /\ opc' # "titles"
           /\ Answer.call = "resolve"
           /\ Survivors(Answer.value.papers) = {}) =>
             /\ opc' = "exited"
             /\ result'.kind = "summary"
             /\ result'.candidates = 0
             /\ result'.analyzed = <<>>
             /\ result'.relevant = <<>>
             /\ messageId' = messageId
             /\ inbox' = inbox
             /\ scored' = <<>>
       /\ (opc' = "exited" /\ result'.kind = "summary" /\ result'.candidates = 0) =>
             /\ result'.analyzed = <<>>
             /\ result'.relevant = <<>>
             /\ scored' = <<>>
             /\ messageId' - 1 = Len(<<"initialize", "get_all_titles">>)
       /\ opc = "exited" =>
             /\ messageId' = messageId
             /\ inbox' = inbox
             /\ scored' = scored
             /\ result' = result]_vars

\* papers were listed and recent, none had a keyword, and the run has ended
C10_Witness ==
    /\ opc = "exited"
    /\ result.kind = "summary"
    /\ result.total_scanned > 0
    /\ result.recent_papers > 0
    /\ result.candidates = 0

----------------------------------------------------------------------------
(* The scoring loop of curatePapers on its own: any papers, any oracle *)

\* the papers fetchAbstracts may have returned, in the order of the candidates
ScoredPool == <<"u1", "u3", "u0", "u2">>
ScoredLists ==
    {SubSeq(ScoredPool, 1, n) :
        n \in 1..(IF MaxScored < Len(ScoredPool) THEN MaxScored ELSE Len(ScoredPool))}

InitScoring ==
    /\ inbox = <<>>
    /\ fetch = NoFetch
    /\ wtimer = Off
    /\ HandlerIdle
    /\ ChannelIdle
    /\ env = AnyNet
    /\ serverProcess = "running"
    /\ opc = "scoring"
    /\ otimer = Off
    /\ options \in {[DefaultOptions EXCEPT !.minScore = m] : m \in {DefaultMinScore, 7}}
    /\ result = NoResult
    /\ \E urls \in ScoredLists :
          LET entries == [k \in 1..Len(urls) |-> Entry(urls[k], TRUE)]
              papers == CategoryPapers(entries, coreCategories[1])
              details == [k \in 1..Len(urls) |-> Detail(entries[k])]
          IN /\ run = [NoRun EXCEPT !.titleData = TitlesResult(papers),
                                    !.recentPapers = papers,
                                    !.candidates = papers,
                                    !.abstractData = AbstractsResult(urls, details),
                                    !.i = 1]
             /\ orphans = NoOrphans
             /\ scored = <<urls[1]>>

NextScoring == AnalyzeSettles \/ ScoringPaced \/ Tick

SpecScoring == InitScoring /\ [][NextScoring]_vars

\* the scores of a list of analyzed papers
ScoresOf(papers) == [k \in 1..Len(papers) |-> papers[k].llama_score]

\* where the paper of a url stands in a list
PlaceOf(u, papers) == CHOOSE k \in 1..Len(papers) : papers[k].url = u

\* C11: the relevant list of the summary holds exactly the analyzed papers whose
\* score is at least minScore, ordered by score descending, and papers of equal
\* score stand in the order they have in the analyzed list.
C11_RelevantFilteredStableRanked ==
    result.kind = "summary" =>
        /\ \A k \in 1..Len(result.relevant) :
              /\ result.relevant[k].llama_score >= options.minScore
              /\ \E j \in 1..Len(result.analyzed) : result.analyzed[j] = result.relevant[k]
        /\ \A j \in 1..Len(result.analyzed) :
              result.analyzed[j].llama_score >= options.minScore =>
                 Cardinality({k \in 1..Len(result.relevant) :
                                 result.relevant[k] = result.analyzed[j]}) = 1
        /\ \A a, b \in 1..Len(result.relevant) :
              a < b =>
                 \/ result.relevant[a].llama_score > result.relevant[b].llama_score
                 \/ /\ result.relevant[a].llama_score = result.relevant[b].llama_score
                    /\ PlaceOf(result.relevant[a].url, result.analyzed)
                         < PlaceOf(result.relevant[b].url, result.analyzed)

\* papers scored 3, 7, 7, 5 with minScore 5: paper 2, paper 3, paper 4
C11_Witness ==
    /\ result.kind = "summary"
    /\ options.minScore = DefaultMinScore
    /\ ScoresOf(result.analyzed) = <<3, 7, 7, 5>>
    /\ result.relevant = <<result.analyzed[2], result.analyzed[3], result.analyzed[4]>>

\* C12: whatever the oracle answers, the score of every paper of the analyzed
\* list is an integer between 0 and 10.
C12_ScoreBetween0And10 ==
    /\ \A k \in 1..Len(run.analyzedPapers) : run.analyzedPapers[k].llama_score \in 0..10
    /\ \A k \in 1..Len(result.analyzed) : result.analyzed[k].llama_score \in 0..10

\* the oracle's text has no "Score:" marker
NoMarker(text) == \A k \in 1..Len(text) : text[k].c # "Score: n/10 - "

\* the text without the whitespace at its two ends
RECURSIVE Stripped(_)
Stripped(text) ==
    IF text = <<>> THEN <<>>
    ELSE IF text[1].c = " " THEN Stripped(SubSeq(text, 2, Len(text)))
    ELSE IF text[Len(text)].c = " " THEN Stripped(SubSeq(text, 1, Len(text) - 1))
    ELSE text

\* the scoring loop goes on whatever the oracle does: the papers are scored in
\* list order, a failed call leaves score 0 with the fallback reasoning, and
\* the run ends with a summary that has one analyzed entry per paper
ScoringNeverAborts(papers) ==
    /\ scored = [k \in 1..Len(scored) |-> run.abstractData.papers[k].url]
    /\ Len(papers) \in {Len(scored) - 1, Len(scored)}
    /\ \A k \in 1..Len(papers) :
          /\ papers[k].url = run.abstractData.papers[k].url
          /\ papers[k].llama_full_response = ErrorResponse =>
                /\ papers[k].llama_score = 0
                /\ papers[k].llama_reasoning = FallbackReasoning
          /\ (papers[k].llama_full_response # ErrorResponse
                /\ NoMarker(papers[k].llama_full_response)) => papers[k].llama_score = 0
    /\ result.kind # "thrown"
    /\ opc = "exited" =>
          /\ result.kind = "summary"
          /\ result.analyzed = papers
          /\ Len(papers) = Len(run.abstractData.papers)

----------------------------------------------------------------------------
(* The filters of curatePapers on their own: any titles answer, any cap *)

\* the papers get_all_titles may have answered with
TitleLists ==
    {SortPapers(CategoryPapers([k \in 1..Len(urls) |-> Entry(urls[k], TRUE)],
                               coreCategories[1])) :
        urls \in {u \in UNION {[1..n -> Urls \cup {StableUrl}] : n \in 0..MaxTitles} :
                     \A a, b \in 1..Len(u) : a # b => u[a] # u[b]}}

\* --candidates
CandidateCaps == {0, 1, 2, DefaultMaxCandidates}

\* curatePapers has sent its titles request and the answer has been read
InitFilter ==
    /\ inbox = <<>>
    /\ fetch = NoFetch
    /\ wtimer = Off
    /\ HandlerIdle
    /\ stdout = <<>>
    /\ wrote = 0
    /\ messageId = 3
    /\ pendingRequests = {}
    /\ timers = (1 :> RequestTimeout) @@ (2 :> RequestTimeout)
    /\ \E papers \in TitleLists :
          settles = (1 :> <<Resolve(InitializeResult, <<>>)>>)
                    @@ (2 :> <<Resolve(TitlesResult(papers), <<>>)>>)
    /\ unmatched = {}
    /\ buffer = <<>>
    /\ env \in {[AnyNet EXCEPT !.today = d] : d \in Days}
    /\ serverProcess = "running"
    /\ opc = "titles"
    /\ otimer = Off
    /\ options \in {[DefaultOptions EXCEPT !.maxCandidates = n] : n \in CandidateCaps}
    /\ run = [NoRun EXCEPT !.awaiting = 2]
    /\ result = NoResult
    /\ orphans = NoOrphans
    /\ scored = <<>>

NextFilter == TitlesReceived

SpecFilter == InitFilter /\ [][NextFilter]_vars

\* the recent papers of the titles answer that have a keyword, in its order
Matching(paper) ==
    /\ paper.published >= env.today - options.daysBack
    /\ \E keyword \in Keywords : keyword \in TextOf(paper.url)
Matches == SelectSeq(run.titleData.papers, Matching)

\* C14: the candidates are the first min(number of keyword matches,
\* maxCandidates) of the keyword-matching recent papers, in their order; with
\* more matches than maxCandidates exactly maxCandidates are kept.
C14_CandidatesArePrefix ==
    opc # "titles" =>
        /\ Len(run.candidates) = Min({Len(Matches), options.maxCandidates})
        /\ \A k \in 1..Len(run.candidates) : run.candidates[k] = Matches[k]
        /\ Len(Matches) > options.maxCandidates =>
              Len(run.candidates) = options.maxCandidates
        /\ opc = "abstracts" =>
              inbox[Len(inbox)].urls = [k \in 1..Len(run.candidates) |-> Matches[k].url]
        /\ opc = "exited" => result.candidates = Len(run.candidates)

\* two papers match and one is kept
C14_Witness ==
    /\ opc = "abstracts"
    /\ Len(Matches) = 2
    /\ options.maxCandidates = 1
    /\ run.candidates = <<Matches[1]>>

----------------------------------------------------------------------------
(* The channel when the worker exits: requests are sent and answered while the
   worker lives; time passes and due timers run *)

\* the worker answers the oldest request it has: a result, or the error of a
\* handler that throws
WorkerAnswers ==
    /\ wpc = "idle"
    /\ inbox # <<>>
    /\ inbox' = Tail(inbox)
    /\ \E line \in {ResultLine(Head(inbox).id, NoReply),
                    ErrorLine(Head(inbox).id, "Unknown tool")} :
          stdout' = stdout \o line
    /\ UNCHANGED <<workerVars, wrote, channelVars, curatorVars>>

NextOrphans ==
    \/ wpc # "exited" /\ ClientSends
    \/ WorkerAnswers
    \/ WorkerExits
    \/ \E n \in 1..MaxChunk : StdoutData(n)
    \/ \E id \in 1..MaxRequests : TimerFires(id)
    \/ Tick

\* the event loop runs a timer that is due, and time does not stop
SpecOrphans ==
    /\ InitChannel
    /\ [][NextOrphans]_vars
    /\ WF_vars(Tick)
    /\ \A id \in 1..MaxRequests : WF_vars(TimerFires(id))

OnlyTimedOut(id) == id \in Sent => settles[id] \in {<<>>, <<Reject("Request timeout")>>}
RejectedByTimeout(id) == id \in Sent /\ id \notin pendingRequests /\ TimedOut(id)

\* C15 as stated, for every moment after the exit: a request pending when the
\* worker exits is still pending or has been rejected by its timeout; none has
\* been resolved, or settled in any other way.
C15_OrphansOnlyTimeOut ==
    \A id \in orphans.pending :
        /\ OnlyTimedOut(id)
        /\ id \in pendingRequests \/ RejectedByTimeout(id)

\* C15: every request pending when the worker exits whose response line the
\* worker had not already written is eventually rejected by its timeout and
\* removed from the table, and is never settled in any other way.
C15_UnansweredOrphansTimeOut ==
    \A id \in 1..MaxRequests :
        /\ [](id \in orphans.pending \ orphans.answered => OnlyTimedOut(id))
        /\ (id \in orphans.pending \ orphans.answered)
              ~> RejectedByTimeout(id)

\* both requests were pending at the exit, the response of request 1 was in
\* the pipe; request 2 has timed out and request 1 was resolved
C15_Witness ==
    /\ wpc = "exited"
    /\ orphans.pending = {1, 2}
    /\ orphans.answered = {1}
    /\ pendingRequests = {}
    /\ TimedOut(2)
    /\ settles[1] = <<Resolve(NoReply, <<>>)>>

----------------------------------------------------------------------------
(* The handshake: connect() with a worker that answers initialize, refuses it
   or exits, at any time *)

NextHandshake ==
    \/ Connect
    \/ StartupOver
    \/ InitializeCall
    \/ InitializeRefused
    \/ WorkerExits
    \/ Initialized
    \/ ~Resumable /\ \E n \in 1..MaxChunk : StdoutData(n)
    \/ ~Resumable /\ \E id \in DOMAIN timers : TimerFires(id)
    \/ ~Resumable /\ Tick

\* the continuation of a settled await runs
SpecHandshake == InitPipeline /\ [][NextHandshake]_vars /\ WF_vars(Initialized)

\* the initialize request is request 1
InitializeSettled == 1 \in Sent /\ settles[1] # <<>>
InitializeResolved == InitializeSettled /\ settles[1][1].call = "resolve"
InitializeRejected == InitializeSettled /\ settles[1][1].call = "reject"
WritesToolsCall ==
    /\ Len(inbox') > Len(inbox)
    /\ inbox'[Len(inbox')].method = "tools/call"

\* C16: a tools/call request is written only after the initialize request has
\* been resolved; when the initialize request is rejected, by an error
\* response or by its timeout, main's catch gets the error, the run ends with
\* the worker disconnected, and no tools/call request is ever written.
C16_InitializeBeforeToolsCall ==
    /\ [][/\ WritesToolsCall => InitializeResolved
          /\ InitializeRejected => ~WritesToolsCall
          /\ (InitializeRejected /\ opc' # opc) =>
                /\ opc' = "exited"
                /\ result' = Thrown(settles[1][1].reason)
                /\ serverProcess' = "null"]_vars
    /\ [](InitializeRejected => messageId = 2)
    /\ InitializeRejected ~> (opc = "exited" /\ result.kind = "thrown")

\* the initialize request timed out and the run ended with that error
C16_Witness ==
    /\ opc = "exited"
    /\ TimedOut(1)
    /\ result = Thrown("Request timeout")
    /\ messageId = 2

\* the initialize request was refused and the run ended with that error
C16_WitnessRefused ==
    /\ opc = "exited"
    /\ InitializeRejected
    /\ result = Thrown("Unknown error")

----------------------------------------------------------------------------
(* Pacing of the two worker loops, read from the handler's log of fetchWithRetry
   calls and pacing delays *)

\* in the log every call but the last is followed by a pacing delay of ms, and
\* the log does not end with a delay once the loop is over
PacedBy(log, ms, over) ==
    /\ \A k \in 1..(Len(log) - 1) :
          /\ log[k].op = "fetch" => log[k + 1] = DelayEv(ms)
          /\ log[k].op = "delay" => log[k + 1].op = "fetch"
    /\ (over /\ log # <<>>) => log[Len(log)].op = "fetch"

\* C17: in get_all_titles a pacing delay of 2 s lies between the fetch of a
\* category and the fetch of the next, whether the earlier one succeeded or
\* failed, and no pacing delay follows the last category.
C17_PacingBetweenCategories ==
    PacedBy(wlog, CategoryPacing, wpc = "idle" /\ wreq # NoRequest)

\* C18: in get_abstracts_for_papers a pacing delay of 1 s lies between the
\* lookup of a paper and the lookup of the next, whether the earlier one
\* succeeded, gave no entry or failed, and no pacing delay follows the last.
C18_PacingBetweenLookups ==
    PacedBy(wlog, PaperPacing, wpc = "idle" /\ wreq # NoRequest)

----------------------------------------------------------------------------
(* The frame of a timeout *)

\* the step is the timer callback of request id
TimesOut(id) == id \in DOMAIN timers /\ id \notin DOMAIN timers'

\* C19: the timeout of a request rejects and removes that request only: the
\* other entries of the table and their settlements are unchanged, the id
\* counter and the reader's buffer are unchanged; afterwards a response line for
\* a request still in the table settles it, and a request sent afterwards gets
\* the next id and its own entry.
C19_TimeoutFrame ==
    [][\A raw \in {RawLinesRead} : \A Read \in {ParsedLines(raw)} :
       \A IdsRead \in {IdsOfLines(Read)} :
       /\ \A id \in Sent :
            TimesOut(id) =>
               /\ DOMAIN timers' = DOMAIN timers \ {id}
               /\ pendingRequests' = pendingRequests \ {id}
               /\ id \in pendingRequests => TimedOut(id)'
               /\ \A other \in Sent \ {id} :
                     /\ settles'[other] = settles[other]
                     /\ other \in DOMAIN timers => timers'[other] = timers[other]
               /\ messageId' = messageId
               /\ buffer' = buffer
               /\ unmatched' = unmatched
               /\ inbox' = inbox
       /\ (Expired # {} /\ ReadsStdout) =>
             \A id \in pendingRequests \cap IdsRead :
                /\ id \notin pendingRequests'
                /\ settles'[id] =
                     <<Settlement(Read[Min({k \in 1..Len(Read) :
                                              Read[k].ok /\ Read[k].id = id})])>>
       /\ (Expired # {} /\ messageId' # messageId) =>
             /\ messageId' = messageId + 1
             /\ pendingRequests' = pendingRequests \cup {messageId}
             /\ settles'[messageId] = <<>>
             /\ timers'[messageId] = RequestTimeout
             /\ inbox'[Len(inbox')].id = messageId
             /\ \A id \in Sent : settles'[id] = settles[id]]_vars

\* request 1 has just timed out with request 2 in the table, and the response
\* of request 2 is there to be read
C19_Witness ==
    /\ messageId = 3
    /\ TimedOut(1)
    /\ pendingRequests = {2}
    /\ timers = (2 :> 0)
    /\ settles[2] = <<>>
    /\ stdout = ResultLine(2, NoReply)

----------------------------------------------------------------------------
(* The reader on its own: two requests are pending and the worker's output,
   any stream of lines and an unfinished line, arrives in chunks of any size *)

\* a result whose text has a character of two bytes
AccentedLine(id) ==
    <<IdPart(id), Byte("lead"), Byte("cont"), ResultPart(NoReply), Newline>>

StreamLines ==
    {ResultLine(1, NoReply), ErrorLine(2, "Unknown tool"), AccentedLine(2),
     <<IdPart(1), Junk, Newline>>, <<Space, Newline>>}

\* what may follow the last newline
Fragments == {<<>>, <<IdPart(1)>>, <<IdPart(2), ResultPart(NoReply)>>}

Streams ==
    {a \o b \o f : a \in StreamLines \cup {<<>>}, b \in StreamLines, f \in Fragments}

InitReader ==
    /\ inbox = <<>>
    /\ fetch = NoFetch
    /\ wtimer = Off
    /\ HandlerIdle
    /\ stdout \in Streams
    /\ wrote = 0
    /\ messageId = 3
    /\ pendingRequests = {1, 2}
    /\ timers = (1 :> RequestTimeout) @@ (2 :> RequestTimeout)
    /\ settles = (1 :> <<>>) @@ (2 :> <<>>)
    /\ unmatched = {}
    /\ buffer = <<>>
    /\ CuratorIdle

NextReader == \E n \in 1..MaxRead : StdoutData(n)

SpecReader == InitReader /\ [][NextReader]_vars

\* the chunk the step reads, and the reader before and after it
ChunkRead == SubSeq(stdout, 1, Len(stdout) - Len(stdout'))
ReaderNow == <<buffer, pendingRequests, settles, unmatched>>

\* C20: what the reader does with a run of bytes does not depend on how the
\* run is cut into data events: read as one chunk or as two, the same requests
\* are settled with the same outcomes;
\* the text after the last newline stays in the buffer and settles nothing, and
\* a complete line that does not parse settles and removes nothing.
C20_ChunkingIndependent ==
    [][ReadsStdout =>
         \A data \in {ChunkRead} : \A after \in {ReaderNow'} :
            /\ \A cut \in 1..(Len(data) - 1) :
                  \A twice \in {OnData(OnData(ReaderNow, SubSeq(data, 1, cut)),
                                        SubSeq(data, cut + 1, Len(data)))} :
                     /\ twice[2] = after[2]
                     /\ twice[3] = after[3]
            /\ (\A k \in 1..Len(data) : data[k].c # "nl") =>
                  /\ after[1] = buffer \o Decode(data)
                  /\ after[2] = pendingRequests
                  /\ after[3] = settles
            /\ \A raw \in {RawLinesRead} :
                  (\A k \in 1..Len(raw) : ~Parse(Trim(raw[k])).ok) =>
                     (after[2] = pendingRequests /\ after[3] = settles)]_vars

----------------------------------------------------------------------------
(* The life of a table entry *)

\* C21: a request is in the table from the step that sends it until it is
\* settled, by the first response line with its id or by its timer; it is
\* settled at most once, and once it has left the table no later line with its
\* id and no timer puts it back or settles it again.
C21_SettledOnceNeverBack ==
    [][/\ \A id \in Sent' :
            /\ Len(settles'[id]) <= 1
            /\ id \in pendingRequests' <=> settles'[id] = <<>>
            /\ id \notin Sent => id \in pendingRequests'
       /\ \A id \in Sent :
            id \notin pendingRequests =>
               /\ id \notin pendingRequests'
               /\ settles'[id] = settles[id]]_vars

\* request 1 was resolved by one of two response lines with its id, the other
\* was read too, and its timer has run out
C21_Witness ==
    /\ messageId >= 2
    /\ settles[1] = <<Resolve(NoReply, <<>>)>>
    /\ unmatched = {1}
    /\ wrote = 2
    /\ stdout = <<>>
    /\ buffer = <<>>
    /\ 1 \in Expired

----------------------------------------------------------------------------
(* One call at a time *)

\* C22: in a run of main the table never holds more than one entry; a request
\* is sent only when every earlier request has been settled and has left the
\* table.
C22_OneOutstanding ==
    [][/\ Cardinality(pendingRequests') <= 1
       /\ messageId' # messageId =>
             /\ pendingRequests = {}
             /\ \A id \in Sent : Len(settles[id]) = 1
             /\ pendingRequests' = {messageId}]_vars

\* the third request of the run, for the abstracts, is the only entry
C22_Witness ==
    /\ messageId = 4
    /\ pendingRequests = {3}
    /\ opc = "abstracts"
    /\ settles[1] # <<>>
    /\ settles[2] # <<>>

----------------------------------------------------------------------------
(* Termination: a run of main with a worker that may exit at any time before
   its last answer, and the two handlers of the worker called on their own *)

\* the networks of a run of main: every request answered, none answered
\* within the HTTP timeout, or either one
RunNets ==
    {[weather |-> w, listing |-> "mixed", today |-> d] :
        w \in {"clear", "down", "stalling"}, d \in Days}

\* the networks of a handler called on its own: a request may be answered, and
\* may fail at once or after the whole HTTP timeout
HandlerNets ==
    {[weather |-> w, listing |-> "mixed", today |-> d] :
        w \in {"refusing", "stalling"}, d \in Days}

\* main is about to start; or the worker alone has one tools/call to serve
InitTermination ==
    /\ fetch = NoFetch
    /\ wtimer = Off
    /\ HandlerIdle
    /\ ChannelIdle
    /\ serverProcess = "null"
    /\ opc = "main"
    /\ otimer = Off
    /\ options = DefaultOptions
    /\ run = NoRun
    /\ result = NoResult
    /\ orphans = NoOrphans
    /\ scored = <<>>
    /\ \/ inbox = <<>> /\ env \in RunNets
       \/ inbox = <<ToolCall(1, "get_all_titles", <<>>)>> /\ env \in HandlerNets
       \/ /\ \E urls \in UrlLists(MaxUrls) :
                inbox = <<ToolCall(1, "get_abstracts_for_papers", urls)>>
          /\ env \in HandlerNets

\* the worker was called on its own: main never starts
WorkerAlone == opc = "main" /\ (inbox # <<>> \/ wreq # NoRequest)

NextTermination ==
    \/ ~WorkerAlone /\ Connect
    \/ StartupOver
    \/ Initialized
    \/ TitlesReceived
    \/ AbstractsReceived
    \/ AnalyzeSettles
    \/ ScoringPaced
    \/ InitializeCall
    \/ TitlesCall
    \/ TitlesFetched
    \/ TitlesPaced
    \/ AbstractsCall
    \/ AbstractsFetched
    \/ AbstractsPaced
    \/ FetchSettle
    \/ FetchRetry
    \/ opc \in {"startup", "initialize", "titles", "abstracts"} /\ WorkerExits
    \/ ~Resumable /\ ~WorkerAlone /\ \E n \in 1..MaxChunk : StdoutData(n)
    \/ ~Resumable /\ \E id \in DOMAIN timers : TimerFires(id)
    \/ (Quiet \/ WorkerAlone) /\ Tick

\* whatever is ready runs: timers fire, a settled await continues, a call of
\* the oracle completes or fails
SpecTermination ==
    InitTermination /\ [][NextTermination]_vars /\ WF_vars(NextTermination)

\* curatePapers has been called and has not ended
Curating == opc \in {"titles", "abstracts", "scoring", "scoring_pace"}
Terminal == opc = "exited" /\ result.kind \in {"summary", "thrown"}

\* a handler of the worker is running
Handling == wpc \in {"titles_fetch", "titles_pace", "abstracts_fetch", "abstracts_pace"}
Finished == wpc = "idle" /\ reply.kind \in {"titles", "abstracts"} /\ stdout # <<>>

\* C23: a run of main comes to its end, with the summary of curatePapers or
\* with an error, whether the worker answers, answers too late or exits; a
\* handler of the worker that is left to run ends with its answer written; and
\* a handler tries a category at most 3 times and a paper at most 2 times.
C23_Terminates ==
    /\ <>(Terminal \/ (WorkerAlone /\ Finished))
    /\ [](/\ wpc = "titles_fetch" => fetch.tries <= DefaultMaxRetries
          /\ wpc = "abstracts_fetch" => fetch.tries <= PaperMaxRetries
          /\ Terminal => ~Handling)

\* the worker exited with the titles request in the table; the request timed
\* out and the run ended with that error
C23_Witness ==
    /\ Terminal
    /\ orphans.pending = {2}
    /\ orphans.answered = {}
    /\ TimedOut(2)
    /\ result = Thrown("Request timeout")

====
